---- MODULE Spec2Model ----
(***************************************************************************)
(* Model of the Semantic Kernel tool-use notebook                          *)
(* (04-semantic-kernel-tool.ipynb): the batch loop `main` of cell 5 and    *)
(* the interactive chat (process_user_input / on_submit) of cell 6,        *)
(* together with the streaming agent they consume.                         *)
(*                                                                         *)
(* A Python str is a sequence of atoms; an atom is a TLA+ string holding   *)
(* one character or one fixed fragment of markup.  Concatenation is \o.    *)
(***************************************************************************)
EXTENDS Integers, Sequences, FiniteSets, TLC

\* ---------------------------------------------------------------- bounds
\* Responses one stream of main's run may yield.
MaxResponses == 2
\* Responses one stream of the chat's run may yield.
MaxChatResponses == 1
\* Tasks on_submit may create in one run of the chat.
MaxTasks == 2
\* Response items in the stream of the single-turn specification.
MaxItems == 3

\* ------------------------------------------------------------ Python values
\* Python's None, where a str is expected.
None == <<"<None>">>
\* `thread = None`: thread objects are numbered from 1.
NoThread == 0

\* bool(x) of an Optional[str].
Truthy(s) == s # None /\ s # <<>>

Whitespace == {" ", "\n"}

RECURSIVE LStrip(_)
LStrip(s) ==
    IF s # <<>> /\ Head(s) \in Whitespace THEN LStrip(Tail(s)) ELSE s

RECURSIVE RStrip(_)
RStrip(s) ==
    IF s # <<>> /\ s[Len(s)] \in Whitespace
    THEN RStrip(SubSeq(s, 1, Len(s) - 1))
    ELSE s

\* str.strip()
Strip(s) == RStrip(LStrip(s))

\* sep.join(parts)
RECURSIVE Join(_, _)
Join(sep, parts) ==
    IF parts = <<>> THEN <<>>
    ELSE IF Len(parts) = 1 THEN parts[1]
    ELSE parts[1] \o sep \o Join(sep, Tail(parts))

\* -------------------------------------------------------------------- json
\* The JSON texts the model's argument chunks can build: numbers of the
\* digits 1-9, strings of letters, and objects of them.
Digits == {"1", "2", "3"}
Letters == {"a", "b"}

JsonFail == [ok |-> FALSE, pos |-> 0, val |-> [t |-> "null", v |-> <<>>]]

RECURSIVE SkipWs(_, _)
SkipWs(s, p) ==
    IF p <= Len(s) /\ s[p] \in Whitespace THEN SkipWs(s, p + 1) ELSE p

\* The first position at or after p that holds no element of `set`.
RECURSIVE SkipSet(_, _, _)
SkipSet(s, p, set) ==
    IF p <= Len(s) /\ s[p] \in set THEN SkipSet(s, p + 1, set) ELSE p

\* A string literal starting at p (s[p] is the opening quote).
ParseString(s, p) ==
    LET q == SkipSet(s, p + 1, Letters)
    IN  IF q <= Len(s) /\ s[q] = "\""
        THEN [ok |-> TRUE, pos |-> q + 1,
              val |-> [t |-> "str", v |-> SubSeq(s, p + 1, q - 1)]]
        ELSE JsonFail

\* dict[key] = val: a repeated key keeps its place and takes the new value.
RECURSIVE SetKey(_, _, _)
SetKey(members, key, val) ==
    IF members = <<>> THEN << [k |-> key, val |-> val] >>
    ELSE IF Head(members).k = key
         THEN << [k |-> key, val |-> val] >> \o Tail(members)
         ELSE << Head(members) >> \o SetKey(Tail(members), key, val)

RECURSIVE ParseValue(_, _)
RECURSIVE ParseMembers(_, _, _)

\* After "{" or ",": ws string ws ":" value, then "," or "}".
ParseMembers(s, p, members) ==
    LET p1 == SkipWs(s, p)
    IN  IF p1 > Len(s) \/ s[p1] # "\"" THEN JsonFail
        ELSE LET key == ParseString(s, p1)
                 p2 == SkipWs(s, key.pos)
             IN  IF ~key.ok \/ p2 > Len(s) \/ s[p2] # ":" THEN JsonFail
                 ELSE LET val == ParseValue(s, p2 + 1)
                      IN  IF ~val.ok \/ val.pos > Len(s) THEN JsonFail
                          ELSE LET ms == SetKey(members, key.val.v, val.val)
                               IN  IF s[val.pos] = "}"
                                   THEN [ok |-> TRUE, pos |-> val.pos + 1,
                                         val |-> [t |-> "obj", v |-> ms]]
                                   ELSE IF s[val.pos] = ","
                                        THEN ParseMembers(s, val.pos + 1, ms)
                                        ELSE JsonFail

\* ws value ws, from position p; pos is the position after the trailing ws.
ParseValue(s, p) ==
    LET p1 == SkipWs(s, p)
    IN  IF p1 > Len(s) THEN JsonFail
        ELSE LET r == IF s[p1] \in Digits
                      THEN LET q == SkipSet(s, p1, Digits)
                           IN  [ok |-> TRUE, pos |-> q,
                                val |-> [t |-> "num", v |-> SubSeq(s, p1, q - 1)]]
                      ELSE IF s[p1] = "\"" THEN ParseString(s, p1)
                      ELSE IF s[p1] = "{"
                           THEN LET p2 == SkipWs(s, p1 + 1)
                                IN  IF p2 <= Len(s) /\ s[p2] = "}"
                                    THEN [ok |-> TRUE, pos |-> p2 + 1,
                                          val |-> [t |-> "obj", v |-> <<>>]]
                                    ELSE ParseMembers(s, p1 + 1, <<>>)
                      ELSE JsonFail
             IN  IF r.ok THEN [r EXCEPT !.pos = SkipWs(s, r.pos)] ELSE JsonFail

\* json.loads(s): ok is FALSE where Python raises JSONDecodeError.
JsonLoads(s) ==
    LET r == ParseValue(s, 1)
    IN  IF r.ok /\ r.pos = Len(s) + 1 THEN r ELSE JsonFail

\* json.dumps(val), with the default separators ", " and ": ".
RECURSIVE JsonDumps(_)
RECURSIVE DumpMembers(_)
DumpMembers(members) ==
    IF members = <<>> THEN <<>>
    ELSE <<"\"">> \o Head(members).k \o <<"\"", ":", " ">>
         \o JsonDumps(Head(members).val)
         \o (IF Len(members) > 1 THEN <<",", " ">> ELSE <<>>)
         \o DumpMembers(Tail(members))

JsonDumps(val) ==
    IF val.t = "num" THEN val.v
    ELSE IF val.t = "str" THEN <<"\"">> \o val.v \o <<"\"">>
    ELSE <<"{">> \o DumpMembers(val.v) \o <<"}">>

\* ------------------------------------------------------------ content items
\* The items of a streamed response (semantic_kernel.contents), as far as
\* the notebook reads them.
FunctionCallContent(name, args) ==
    [type |-> "FunctionCallContent", function_name |-> name,
     arguments |-> args, result |-> <<>>, text |-> <<>>]
FunctionResultContent(res) ==
    [type |-> "FunctionResultContent", function_name |-> None,
     arguments |-> None, result |-> res, text |-> <<>>]
StreamingTextContent(txt) ==
    [type |-> "StreamingTextContent", function_name |-> None,
     arguments |-> None, result |-> <<>>, text |-> txt]
\* An item of any other content type, a TextContent say.
OtherContent ==
    [type |-> "OtherContent", function_name |-> None,
     arguments |-> None, result |-> <<>>, text |-> <<"other">>]

\* ----------------------------------------------------- cell 5: main's turn
\* The name the agent was created with.
AgentName == <<"TravelAgent">>

\* The markup fragments of the rendered HTML, one atom each; the style
\* attributes are left out of the atoms.
UserDivOpen == <<"<div><div>User:</div><div>">>
UserDivClose == <<"</div></div>">>
CallsDivOpen ==
    <<"<div><details><summary>Function Calls (click to expand)</summary><div>">>
CallsDivClose == <<"</div></details></div>">>
AgentDivOpen == <<"<div><div>">>
AgentDivMid == <<":</div><div>">>
AgentDivClose == <<"</div></div><hr>">>

CallingEntry(name, args) == <<"Calling function: ">> \o name \o <<"(">> \o args \o <<")">>
ResultEntry(res) == <<"\nFunction Result:\n\n">> \o res

\* MainTurnStart with the function-call buffers left as the turn before
\* left them.
MainTurnStart_BuffersKept(loc, user_input) ==
    [loc EXCEPT !.html_output = UserDivOpen \o user_input \o UserDivClose,
                !.agent_name = None,
                !.full_response = <<>>]

\* The top of an iteration of main's loop: html_output and the buffers.
MainTurnStart(loc, user_input) ==
    [loc EXCEPT !.html_output = UserDivOpen \o user_input \o UserDivClose,
                !.agent_name = None,
                !.full_response = <<>>,
                !.function_calls = <<>>,
                !.current_function_name = None,
                !.argument_buffer = <<>>]

\* MainItem with an except clause that empties formatted_args.
MainItem_ArgsDropped(loc, item) ==
    IF item.type = "FunctionCallContent"
    THEN [loc EXCEPT
            !.current_function_name =
                IF Truthy(item.function_name) THEN item.function_name ELSE @,
            !.argument_buffer =
                IF item.arguments # None THEN @ \o item.arguments ELSE @]
    ELSE IF item.type = "FunctionResultContent"
    THEN IF Truthy(loc.current_function_name)
         THEN LET stripped == Strip(loc.argument_buffer)
                  parsed_args == JsonLoads(stripped)
                  formatted_args == IF parsed_args.ok
                                    THEN JsonDumps(parsed_args.val)
                                    ELSE <<>>
              IN  [loc EXCEPT
                     !.function_calls =
                         @ \o << CallingEntry(loc.current_function_name, formatted_args),
                                 ResultEntry(item.result) >>,
                     !.current_function_name = None,
                     !.argument_buffer = <<>>]
         ELSE [loc EXCEPT !.function_calls = Append(@, ResultEntry(item.result))]
    ELSE IF item.type = "StreamingTextContent" /\ item.text # <<>>
    THEN [loc EXCEPT !.full_response = Append(@, item.text)]
    ELSE loc

\* One pass of `for item in content_items` in main.
MainItem(loc, item) ==
    IF item.type = "FunctionCallContent"
    THEN [loc EXCEPT
            !.current_function_name =
                IF Truthy(item.function_name) THEN item.function_name ELSE @,
            !.argument_buffer =
                IF item.arguments # None THEN @ \o item.arguments ELSE @]
    ELSE IF item.type = "FunctionResultContent"
    THEN IF Truthy(loc.current_function_name)
         THEN LET stripped == Strip(loc.argument_buffer)
                  parsed_args == JsonLoads(stripped)
                  formatted_args == IF parsed_args.ok
                                    THEN JsonDumps(parsed_args.val)
                                    ELSE stripped
              IN  [loc EXCEPT
                     !.function_calls =
                         @ \o << CallingEntry(loc.current_function_name, formatted_args),
                                 ResultEntry(item.result) >>,
                     !.current_function_name = None,
                     !.argument_buffer = <<>>]
         ELSE [loc EXCEPT !.function_calls = Append(@, ResultEntry(item.result))]
    ELSE IF item.type = "StreamingTextContent" /\ item.text # <<>>
    THEN [loc EXCEPT !.full_response = Append(@, item.text)]
    ELSE loc

RECURSIVE MainItems(_, _)
MainItems(loc, items) ==
    IF items = <<>> THEN loc
    ELSE MainItems(MainItem(loc, Head(items)), Tail(items))

\* The body of main's `async for response` for one response.
MainResponse(loc, response) ==
    MainItems([loc EXCEPT !.agent_name = response.name], response.items)

\* What main displays when the stream has ended.
MainRender(loc) ==
    loc.html_output
    \o (IF loc.function_calls # <<>>
        THEN CallsDivOpen \o Join(<<"\n">>, loc.function_calls) \o CallsDivClose
        ELSE <<>>)
    \o AgentDivOpen
    \o (IF Truthy(loc.agent_name) THEN loc.agent_name ELSE <<"Assistant">>)
    \o AgentDivMid \o Join(<<>>, loc.full_response) \o AgentDivClose

\* ------------------------------------------- cell 6: process_user_input
\* `agent_name = agent.name if hasattr(agent, "name") else "Assistant"`
agent_name == AgentName

\* process_user_input up to its `async for`.
ProcessStart(user_input) ==
    [html_output |-> UserDivOpen \o user_input \o UserDivClose,
     full_response |-> <<>>,
     function_calls |-> <<>>,
     current_function_name |-> None,
     argument_buffer |-> <<>>]

\* ProcessItem with `formatted_args = argument_buffer`, the strip left out.
ProcessItem_NoStrip(loc, item) ==
    IF item.type = "FunctionCallContent"
    THEN [loc EXCEPT
            !.current_function_name =
                IF Truthy(item.function_name) THEN item.function_name ELSE @,
            !.argument_buffer =
                IF item.arguments # None THEN @ \o item.arguments ELSE @]
    ELSE IF item.type = "FunctionResultContent"
    THEN IF Truthy(loc.current_function_name)
         THEN LET parsed_args == JsonLoads(loc.argument_buffer)
                  formatted_args == IF parsed_args.ok
                                    THEN JsonDumps(parsed_args.val)
                                    ELSE loc.argument_buffer
              IN  [loc EXCEPT
                     !.function_calls =
                         @ \o << CallingEntry(loc.current_function_name, formatted_args),
                                 ResultEntry(item.result) >>,
                     !.current_function_name = None,
                     !.argument_buffer = <<>>]
         ELSE [loc EXCEPT !.function_calls = Append(@, ResultEntry(item.result))]
    ELSE IF item.type = "StreamingTextContent" /\ item.text # <<>>
    THEN [loc EXCEPT !.full_response = Append(@, item.text)]
    ELSE loc

\* ProcessItem with `full_response = [item.text]` for the append.
ProcessItem_TextOverwritten(loc, item) ==
    IF item.type = "FunctionCallContent"
    THEN [loc EXCEPT
            !.current_function_name =
                IF Truthy(item.function_name) THEN item.function_name ELSE @,
            !.argument_buffer =
                IF item.arguments # None THEN @ \o item.arguments ELSE @]
    ELSE IF item.type = "FunctionResultContent"
    THEN IF Truthy(loc.current_function_name)
         THEN LET stripped == Strip(loc.argument_buffer)
                  parsed_args == JsonLoads(stripped)
                  formatted_args == IF parsed_args.ok
                                    THEN JsonDumps(parsed_args.val)
                                    ELSE stripped
              IN  [loc EXCEPT
                     !.function_calls =
                         @ \o << CallingEntry(loc.current_function_name, formatted_args),
                                 ResultEntry(item.result) >>,
                     !.current_function_name = None,
                     !.argument_buffer = <<>>]
         ELSE [loc EXCEPT !.function_calls = Append(@, ResultEntry(item.result))]
    ELSE IF item.type = "StreamingTextContent" /\ item.text # <<>>
    THEN [loc EXCEPT !.full_response = << item.text >>]
    ELSE loc

\* One pass of `for item in content_items` in process_user_input.
ProcessItem(loc, item) ==
    IF item.type = "FunctionCallContent"
    THEN [loc EXCEPT
            !.current_function_name =
                IF Truthy(item.function_name) THEN item.function_name ELSE @,
            !.argument_buffer =
                IF item.arguments # None THEN @ \o item.arguments ELSE @]
    ELSE IF item.type = "FunctionResultContent"
    THEN IF Truthy(loc.current_function_name)
         THEN LET stripped == Strip(loc.argument_buffer)
                  parsed_args == JsonLoads(stripped)
                  formatted_args == IF parsed_args.ok
                                    THEN JsonDumps(parsed_args.val)
                                    ELSE stripped
              IN  [loc EXCEPT
                     !.function_calls =
                         @ \o << CallingEntry(loc.current_function_name, formatted_args),
                                 ResultEntry(item.result) >>,
                     !.current_function_name = None,
                     !.argument_buffer = <<>>]
         ELSE [loc EXCEPT !.function_calls = Append(@, ResultEntry(item.result))]
    ELSE IF item.type = "StreamingTextContent" /\ item.text # <<>>
    THEN [loc EXCEPT !.full_response = Append(@, item.text)]
    ELSE loc

RECURSIVE ProcessItems(_, _)
ProcessItems(loc, items) ==
    IF items = <<>> THEN loc
    ELSE ProcessItems(ProcessItem(loc, Head(items)), Tail(items))

\* ProcessRender with the text chunks joined by newlines.
ProcessRender_NewlineJoin(loc) ==
    loc.html_output
    \o (IF loc.function_calls # <<>>
        THEN CallsDivOpen \o Join(<<"\n">>, loc.function_calls) \o CallsDivClose
        ELSE <<>>)
    \o AgentDivOpen \o agent_name \o AgentDivMid
    \o Join(<<"\n">>, loc.full_response) \o AgentDivClose

\* What process_user_input appends to output_area when the stream has ended.
ProcessRender(loc) ==
    loc.html_output
    \o (IF loc.function_calls # <<>>
        THEN CallsDivOpen \o Join(<<"\n">>, loc.function_calls) \o CallsDivClose
        ELSE <<>>)
    \o AgentDivOpen \o agent_name \o AgentDivMid
    \o Join(<<>>, loc.full_response) \o AgentDivClose

\* The intro message appended to output_area when cell 6 is run.
IntroMessage ==
    AgentDivOpen \o agent_name \o AgentDivMid
    \o <<"Hello! I'm your TravelAgent assistant.">> \o AgentDivClose

\* ------------------------------------------------------------------ state
VARIABLES
    env,          \* which streams the agent may produce: "turns" or "stream"
    cell,         \* the notebook cell that is run: "batch" (5) or "chat" (6)
    user_inputs,  \* cell 5: the list main loops over
    threads,      \* the agent's thread objects: threads[t] is t's history
    m_pc,         \* main: "loop" (at the top of the for) or "stream"
    m_thread,     \* main's local `thread`
    m_loc,        \* main's other locals
    display,      \* what main has displayed, in order
    turns,        \* main: one record per invoke_stream call made so far
    thread,       \* cell 6: the global `thread`
    input_box,    \* cell 6: input_box.value
    output_area,  \* cell 6: the outputs appended to output_area, in order
    tasks,        \* cell 6: one record per task on_submit created
    overlap,      \* history: a submission was accepted while a task was unfinished
    accepted,     \* history: the calls of on_submit whose text was not blank
    event         \* history: "submit" if the last step was a call of on_submit

vars == <<env, cell, user_inputs, threads, m_pc, m_thread, m_loc, display,
          turns, thread, input_box, output_area, tasks, overlap, accepted,
          event>>

batch_vars == <<m_pc, m_thread, m_loc, display, turns>>
chat_vars == <<thread, input_box, output_area, tasks, overlap, accepted, event>>

\* --------------------------------------------------------------- the agent
\* What the notebook's text says of agent.invoke_stream: a call is given a
\* thread or None, works on a thread that then also holds the user message,
\* yields responses that each carry that thread, and the thread holds the
\* agent's message once the response has been streamed.
DigitOf(k) == <<"1", "2", "3", "4", "5", "6", "7", "8", "9">>[k]

UserMessage(k) == [role |-> "user", turn |-> k]
AgentMessage(k) == [role |-> "assistant", turn |-> k]

\* The thread invoke_stream works on: the one given, or a new one.
InvokedThread(given) == IF given = NoThread THEN Len(threads) + 1 ELSE given

\* The threads once call k has been made with `given`.
ThreadsInvoked(given, k) ==
    IF given = NoThread
    THEN Append(threads, << UserMessage(k) >>)
    ELSE [threads EXCEPT ![given] = Append(@, UserMessage(k))]

\* The threads once the stream of call k, on thread th, has ended.
ThreadsEnded(th, k, stream) ==
    IF stream = <<>> THEN threads
    ELSE [threads EXCEPT ![th] = Append(@, AgentMessage(k))]

\* The record of call k: the thread given, the thread worked on, the
\* history the agent saw, and the responses yielded so far.
Invocation(given, k) ==
    [given |-> given,
     th |-> InvokedThread(given),
     ctx |-> IF given = NoThread THEN <<>> ELSE threads[given],
     stream |-> <<>>]

\* The responses a stream of the notebook run may yield in turn k: a text
\* chunk with a chunk of a function call, or a function result.  Their
\* contents name the turn.
TextAndCall(k) ==
    [name |-> AgentName,
     items |-> << StreamingTextContent(<<"text", DigitOf(k)>>),
                  FunctionCallContent(<<"get_availability">>,
                      <<" ", "{", "\"", "a", "\"", ":", DigitOf(k), "}">>) >>]
ResultOnly(k) ==
    [name |-> AgentName,
     items |-> << FunctionResultContent(<<"result", DigitOf(k)>>) >>]
TurnResponses(k) == { TextAndCall(k), ResultOnly(k) }

\* The items of the single-turn streams.
StreamNames == { None, <<"get_destinations">>, <<"get_availability">> }
StreamArguments == { None, <<"{", "\"", "a", "\"", ":">>, <<"1", "}">>, <<" ">> }
StreamItems ==
    { FunctionCallContent(n, a) : n \in StreamNames, a \in StreamArguments }
    \cup { FunctionResultContent(<<"ok">>) }
    \cup { StreamingTextContent(<<>>), StreamingTextContent(<<"Hi">>),
           StreamingTextContent(<<"!">>) }
    \cup { OtherContent }
StreamResponses ==
    { [name |-> AgentName, items |-> << it >>] : it \in StreamItems }
    \cup { [name |-> None, items |-> <<>>] }

Responses(k) == IF env = "stream" THEN StreamResponses ELSE TurnResponses(k)
StreamLimit ==
    IF env = "stream" THEN MaxItems
    ELSE IF cell = "batch" THEN MaxResponses ELSE MaxChatResponses
TaskLimit == IF env = "stream" THEN 1 ELSE MaxTasks

\* ------------------------------------------------------------ cell 5: main
NotebookInputs ==
    << <<"What destinations are available?">>,
       <<"Is Barcelona available?">>,
       <<"Are there any vacation destinations available not in Europe?">> >>

\* main's locals before the loop assigns them.
Unbound ==
    [html_output |-> None, agent_name |-> None, full_response |-> <<>>,
     function_calls |-> <<>>, current_function_name |-> None,
     argument_buffer |-> <<>>]

\* The top of an iteration up to the call of agent.invoke_stream.
MainNextInput ==
    /\ cell = "batch" /\ m_pc = "loop" /\ Len(turns) < Len(user_inputs)
    /\ LET k == Len(turns) + 1
       IN  /\ m_loc' = MainTurnStart(m_loc, user_inputs[k])
           /\ turns' = Append(turns, Invocation(m_thread, k))
           /\ threads' = ThreadsInvoked(m_thread, k)
    /\ m_pc' = "stream"
    /\ UNCHANGED <<env, cell, user_inputs, m_thread, display, chat_vars>>

\* MainOnResponse without `thread = response.thread`.
MainOnResponse_ThreadNotKept(response) ==
    /\ cell = "batch" /\ m_pc = "stream"
    /\ Len(turns[Len(turns)].stream) < StreamLimit
    /\ m_loc' = MainResponse(m_loc, response)
    /\ turns' = [turns EXCEPT ![Len(turns)].stream = Append(@, response)]
    /\ UNCHANGED <<env, cell, user_inputs, threads, m_pc, m_thread, display,
                   chat_vars>>

\* One pass of main's `async for`: the stream yields `response`.
MainOnResponse(response) ==
    /\ cell = "batch" /\ m_pc = "stream"
    /\ Len(turns[Len(turns)].stream) < StreamLimit
    /\ m_thread' = turns[Len(turns)].th
    /\ m_loc' = MainResponse(m_loc, response)
    /\ turns' = [turns EXCEPT ![Len(turns)].stream = Append(@, response)]
    /\ UNCHANGED <<env, cell, user_inputs, threads, m_pc, display, chat_vars>>

\* The stream ends: main renders and displays the turn.
MainStreamEnd ==
    /\ cell = "batch" /\ m_pc = "stream"
    /\ threads' = ThreadsEnded(turns[Len(turns)].th, Len(turns),
                               turns[Len(turns)].stream)
    /\ display' = Append(display, MainRender(m_loc))
    /\ m_pc' = "loop"
    /\ UNCHANGED <<env, cell, user_inputs, m_thread, m_loc, turns, chat_vars>>

\* ------------------------------------------------------ cell 6: the chat
\* What the user may type into the input box.
UserTexts == { <<>>, <<" ">>, <<" ", "hi">> }

\* A task's locals before its first step.
NotStarted ==
    [html_output |-> None, full_response |-> <<>>, function_calls |-> <<>>,
     current_function_name |-> None, argument_buffer |-> <<>>]

\* asyncio.create_task(process_user_input(user_input))
NewTask(user_input) ==
    [user_input |-> user_input, pc |-> "created", loc |-> NotStarted,
     given |-> NoThread, th |-> NoThread, ctx |-> <<>>, stream |-> <<>>]

Unfinished == { i \in 1..Len(tasks) : tasks[i].pc \notin {"done", "raised"} }

\* The text has a character that is not whitespace.
NonBlank(text) == \E j \in 1..Len(text) : text[j] \notin Whitespace

\* The user edits the input box.  A run is bounded: the user is at the chat
\* until TaskLimit tasks have been created.
UserTypes(text) ==
    /\ cell = "chat" /\ Len(tasks) < TaskLimit
    /\ input_box' = text
    /\ event' = "other"
    /\ UNCHANGED <<env, cell, user_inputs, threads, batch_vars, thread,
                   output_area, tasks, overlap, accepted>>

\* on_submit with `if user_input:` for `if user_input.strip():`.
on_submit_NoStrip ==
    /\ cell = "chat" /\ Len(tasks) < TaskLimit
    /\ LET user_input == input_box
       IN  IF user_input # <<>>
           THEN /\ tasks' = Append(tasks, NewTask(user_input))
                /\ input_box' = <<>>
                /\ overlap' = (overlap \/ Unfinished # {})
           ELSE UNCHANGED <<tasks, input_box, overlap>>
    /\ accepted' = accepted + (IF NonBlank(input_box) THEN 1 ELSE 0)
    /\ event' = "submit"
    /\ UNCHANGED <<env, cell, user_inputs, threads, batch_vars, thread,
                   output_area>>

\* on_submit that runs the new task's first step before it returns.
on_submit_StartsTask ==
    /\ cell = "chat" /\ Len(tasks) < TaskLimit
    /\ LET user_input == input_box
           call == Invocation(thread, Len(tasks) + 1)
       IN  IF Strip(user_input) # <<>>
           THEN /\ tasks' = Append(tasks,
                       [NewTask(user_input) EXCEPT
                           !.pc = "streaming",
                           !.loc = ProcessStart(user_input),
                           !.given = call.given, !.th = call.th,
                           !.ctx = call.ctx])
                /\ threads' = ThreadsInvoked(thread, Len(tasks) + 1)
                /\ input_box' = <<>>
                /\ overlap' = (overlap \/ Unfinished # {})
           ELSE UNCHANGED <<tasks, input_box, overlap, threads>>
    /\ accepted' = accepted + (IF NonBlank(input_box) THEN 1 ELSE 0)
    /\ event' = "submit"
    /\ UNCHANGED <<env, cell, user_inputs, batch_vars, thread, output_area>>

\* on_submit(change): change is the input box.
on_submit ==
    /\ cell = "chat" /\ Len(tasks) < TaskLimit
    /\ LET user_input == input_box
       IN  IF Strip(user_input) # <<>>
           THEN /\ tasks' = Append(tasks, NewTask(user_input))
                /\ input_box' = <<>>
                /\ overlap' = (overlap \/ Unfinished # {})
           ELSE UNCHANGED <<tasks, input_box, overlap>>
    /\ accepted' = accepted + (IF NonBlank(input_box) THEN 1 ELSE 0)
    /\ event' = "submit"
    /\ UNCHANGED <<env, cell, user_inputs, threads, batch_vars, thread,
                   output_area>>

\* The first step of task i: process_user_input up to the call of
\* agent.invoke_stream.  The event loop starts tasks in creation order.
TaskStart(i) ==
    /\ cell = "chat" /\ i \in DOMAIN tasks /\ tasks[i].pc = "created"
    /\ \A j \in 1..(i - 1) : tasks[j].pc # "created"
    /\ LET call == Invocation(thread, i)
       IN  tasks' = [tasks EXCEPT ![i] =
                [@ EXCEPT !.pc = "streaming",
                          !.loc = ProcessStart(tasks[i].user_input),
                          !.given = call.given, !.th = call.th,
                          !.ctx = call.ctx]]
    /\ threads' = ThreadsInvoked(thread, i)
    /\ event' = "other"
    /\ UNCHANGED <<env, cell, user_inputs, batch_vars, thread, input_box,
                   output_area, overlap, accepted>>

\* TaskOnResponse that shows what it has collected after each response.
TaskOnResponse_ShowsChunks(i, response) ==
    /\ cell = "chat" /\ i \in DOMAIN tasks /\ tasks[i].pc = "streaming"
    /\ Len(tasks[i].stream) < StreamLimit
    /\ thread' = tasks[i].th
    /\ tasks' = [tasks EXCEPT ![i] =
            [@ EXCEPT !.loc = ProcessItems(@, response.items),
                      !.stream = Append(@, response)]]
    /\ output_area' = Append(output_area, ProcessRender(tasks'[i].loc))
    /\ event' = "other"
    /\ UNCHANGED <<env, cell, user_inputs, threads, batch_vars, input_box,
                   overlap, accepted>>

\* One pass of task i's `async for`: the stream yields `response`.
TaskOnResponse(i, response) ==
    /\ cell = "chat" /\ i \in DOMAIN tasks /\ tasks[i].pc = "streaming"
    /\ Len(tasks[i].stream) < StreamLimit
    /\ thread' = tasks[i].th
    /\ tasks' = [tasks EXCEPT ![i] =
            [@ EXCEPT !.loc = ProcessItems(@, response.items),
                      !.stream = Append(@, response)]]
    /\ event' = "other"
    /\ UNCHANGED <<env, cell, user_inputs, threads, batch_vars, input_box,
                   output_area, overlap, accepted>>

\* TaskStreamEnd that shows the turn only `if full_response:`.
TaskStreamEnd_ShownIfText(i) ==
    /\ cell = "chat" /\ i \in DOMAIN tasks /\ tasks[i].pc = "streaming"
    /\ threads' = ThreadsEnded(tasks[i].th, i, tasks[i].stream)
    /\ output_area' = IF tasks[i].loc.full_response # <<>>
                      THEN Append(output_area, ProcessRender(tasks[i].loc))
                      ELSE output_area
    /\ tasks' = [tasks EXCEPT ![i].pc = "done"]
    /\ event' = "other"
    /\ UNCHANGED <<env, cell, user_inputs, batch_vars, thread, input_box,
                   overlap, accepted>>

\* Task i's stream ends: it renders the turn and appends it to output_area.
TaskStreamEnd(i) ==
    /\ cell = "chat" /\ i \in DOMAIN tasks /\ tasks[i].pc = "streaming"
    /\ threads' = ThreadsEnded(tasks[i].th, i, tasks[i].stream)
    /\ output_area' = Append(output_area, ProcessRender(tasks[i].loc))
    /\ tasks' = [tasks EXCEPT ![i].pc = "done"]
    /\ event' = "other"
    /\ UNCHANGED <<env, cell, user_inputs, batch_vars, thread, input_box,
                   overlap, accepted>>

\* TaskStreamRaises with the rendering in a `finally:`: what the task has
\* collected is shown before the error leaves it.
TaskStreamRaises_ShowsPartial(i) ==
    /\ cell = "chat" /\ i \in DOMAIN tasks /\ tasks[i].pc = "streaming"
    /\ output_area' = Append(output_area, ProcessRender(tasks[i].loc))
    /\ tasks' = [tasks EXCEPT ![i].pc = "raised"]
    /\ event' = "other"
    /\ UNCHANGED <<env, cell, user_inputs, threads, batch_vars, thread,
                   input_box, overlap, accepted>>

\* Task i's stream raises: process_user_input has no try around its
\* `async for`, so the error ends the task where it is.
TaskStreamRaises(i) ==
    /\ cell = "chat" /\ i \in DOMAIN tasks /\ tasks[i].pc = "streaming"
    /\ tasks' = [tasks EXCEPT ![i].pc = "raised"]
    /\ event' = "other"
    /\ UNCHANGED <<env, cell, user_inputs, threads, batch_vars, thread,
                   input_box, output_area, overlap, accepted>>

\* ---------------------------------------------------------- specifications
InitCommon ==
    /\ cell \in {"batch", "chat"}
    /\ threads = <<>>
    /\ m_pc = "loop" /\ m_thread = NoThread /\ m_loc = Unbound
    /\ display = <<>> /\ turns = <<>>
    /\ thread = NoThread /\ input_box = <<>>
    /\ output_area = << IntroMessage >>
    /\ tasks = <<>> /\ overlap = FALSE /\ accepted = 0 /\ event = "other"

\* A run of cell 5 with the notebook's inputs, or of cell 6.
Init ==
    /\ env = "turns"
    /\ user_inputs = NotebookInputs
    /\ InitCommon

\* A single turn of either cell, over streams of any items.
InitStream ==
    /\ env = "stream"
    /\ user_inputs = << NotebookInputs[1] >>
    /\ InitCommon

Next ==
    \/ MainNextInput
    \/ m_pc = "stream" /\ \E r \in Responses(Len(turns)) : MainOnResponse(r)
    \/ MainStreamEnd
    \/ \E text \in UserTexts : UserTypes(text)
    \/ on_submit
    \/ \E i \in 1..Len(tasks) : TaskStart(i)
    \/ \E i \in 1..Len(tasks) : \E r \in Responses(i) : TaskOnResponse(i, r)
    \/ \E i \in 1..Len(tasks) : TaskStreamEnd(i)
    \/ \E i \in 1..Len(tasks) : TaskStreamRaises(i)

Spec == Init /\ [][Next]_vars

\* A task that can take a step: the event loop runs it, and its stream
\* yields a response or ends, unless it raises.
TaskStep(i) ==
    \/ TaskStart(i)
    \/ \E r \in Responses(i) : TaskOnResponse(i, r)
    \/ TaskStreamEnd(i)

\* The notebook run under a fair event loop and streams that end.
FairSpec == Spec /\ \A i \in 1..MaxTasks : WF_vars(TaskStep(i))

SpecStream == InitStream /\ [][Next]_vars

\* ------------------------------------------------------------------ claims
\* The history of thread t; None has none.
ThreadHistory(t) == IF t = NoThread THEN <<>> ELSE threads[t]

Has(history, message) == \E j \in 1..Len(history) : history[j] = message

\* Task j's exchange is over and yielded nothing: it has no response to keep.
Silent(j) == tasks[j].pc = "done" /\ tasks[j].stream = <<>>

\* C1: thread persistence in the chat, for any accepted submissions, also
\* overlapping ones: the k-th accepted message is sent to invoke_stream with a
\* thread that holds the exchanges made before it, and once all tasks have
\* finished the global thread holds every submitted message and its response.
C1_ThreadPersistence ==
    /\ \A k \in 1..Len(tasks) :
          tasks[k].pc # "created" =>
             \A j \in 1..(k - 1) :
                ~Silent(j) => /\ Has(tasks[k].ctx, UserMessage(j))
                              /\ Has(tasks[k].ctx, AgentMessage(j))
    /\ (\A k \in 1..Len(tasks) : tasks[k].pc = "done" /\ tasks[k].stream # <<>>)
          => \A k \in 1..Len(tasks) :
                /\ Has(ThreadHistory(thread), UserMessage(k))
                /\ Has(ThreadHistory(thread), AgentMessage(k))

\* The thread a call after call `prev` is expected to be given.
CarriedThread(prev) == IF prev.stream = <<>> THEN prev.given ELSE prev.th

\* C2: when turns do not overlap, the first turn calls invoke_stream with
\* thread = None and every later turn with the thread carried by the last
\* response of the turn before it (or the thread that turn was given, if it
\* yielded no response); after n turns that each added a user and an agent
\* message the thread holds 2n messages.
C2_ThreadCarried ==
    /\ \A k \in 1..Len(turns) :
          turns[k].given = IF k = 1 THEN NoThread ELSE CarriedThread(turns[k - 1])
    /\ (m_pc = "loop" /\ \A k \in 1..Len(turns) : turns[k].stream # <<>>)
          => Len(ThreadHistory(m_thread)) = 2 * Len(turns)
    /\ ~overlap =>
          /\ \A k \in 1..Len(tasks) :
                tasks[k].pc # "created" =>
                   tasks[k].given =
                      IF k = 1 THEN NoThread ELSE CarriedThread(tasks[k - 1])
          /\ (\A k \in 1..Len(tasks) :
                 tasks[k].pc = "done" /\ tasks[k].stream # <<>>)
                => Len(ThreadHistory(thread)) = 2 * Len(tasks)

\* Two turns of the chat, the second submitted after the first was shown,
\* each with a response.
C2_Witness ==
    /\ cell = "chat" /\ ~overlap /\ Len(tasks) = 2
    /\ \A k \in 1..2 : tasks[k].pc = "done" /\ tasks[k].stream # <<>>
    /\ tasks[2].given = tasks[1].th
    /\ Len(ThreadHistory(thread)) = 4

\* The items of a stream, in arrival order.
RECURSIVE Flat(_)
Flat(stream) ==
    IF stream = <<>> THEN <<>> ELSE Head(stream).items \o Flat(Tail(stream))

\* The turns in progress or over whose buffers are still held: each started
\* task of the chat, and main's current turn.
Views ==
    { [function_calls |-> tasks[i].loc.function_calls,
       full_response |-> tasks[i].loc.full_response,
       current_function_name |-> tasks[i].loc.current_function_name,
       argument_buffer |-> tasks[i].loc.argument_buffer,
       items |-> Flat(tasks[i].stream)] :
         i \in { j \in 1..Len(tasks) : tasks[j].pc # "created" } }
    \cup
    { [function_calls |-> m_loc.function_calls,
       full_response |-> m_loc.full_response,
       current_function_name |-> m_loc.current_function_name,
       argument_buffer |-> m_loc.argument_buffer,
       items |-> Flat(turns[k].stream)] : k \in {Len(turns)} \ {0} }

IsCall(item) == item.type = "FunctionCallContent"
IsResult(item) == item.type = "FunctionResultContent"

\* The positions of the function results among the items.
ResultsIn(its) == { p \in 1..Len(its) : IsResult(its[p]) }

\* The last position before p in `set`, or 0.
LastBefore(set, p) ==
    IF \E q \in set : q < p
    THEN CHOOSE q \in set : q < p /\ \A r \in set : r < p => r <= q
    ELSE 0

\* The call chunks between the result before position p and p.
ChunksOf(its, p) ==
    { q \in (LastBefore(ResultsIn(its), p) + 1)..(p - 1) : IsCall(its[q]) }

\* The function names those chunks carry.
NamesOf(its, p) ==
    { its[q].function_name : q \in { c \in ChunksOf(its, p) : Truthy(its[c].function_name) } }

\* The results at which a call is pending.
NamedResults(its) == { p \in ResultsIn(its) : NamesOf(its, p) # {} }

\* The argument strings of the call chunks at positions a..b, concatenated.
RECURSIVE ArgumentsIn(_, _, _)
ArgumentsIn(its, a, b) ==
    IF a > b THEN <<>>
    ELSE (IF IsCall(its[a]) /\ its[a].arguments # None
          THEN its[a].arguments ELSE <<>>)
         \o ArgumentsIn(its, a + 1, b)

\* The place in function_calls of the entry for the call finalized at p.
EntryOf(its, p) ==
    Cardinality({ q \in ResultsIn(its) : q < p })
    + Cardinality({ q \in NamedResults(its) : q < p }) + 1

\* json.dumps(json.loads(s)) where s parses, s otherwise.
Reserialized(s) == IF JsonLoads(s).ok THEN JsonDumps(JsonLoads(s).val) ELSE s

PendingName(its, p) ==
    LET named == { c \in ChunksOf(its, p) : Truthy(its[c].function_name) }
    IN  its[CHOOSE c \in named : \A d \in named : d <= c].function_name

\* The text of the non-empty text chunks among the items, in order.
RECURSIVE TextsIn(_)
TextsIn(its) ==
    IF its = <<>> THEN <<>>
    ELSE (IF Head(its).type = "StreamingTextContent" /\ Head(its).text # <<>>
          THEN << Head(its).text >> ELSE <<>>)
         \o TextsIn(Tail(its))

\* `sub` occurs in `seq` as a run of consecutive elements.
Contains(seq, sub) ==
    \E a \in 0..(Len(seq) - Len(sub)) : SubSeq(seq, a + 1, a + Len(sub)) = sub

\* C9: when a pending call is finalized and its stripped argument buffer is
\* no valid JSON (the empty string included), the entry is still appended,
\* with the raw stripped buffer; with valid JSON it carries the re-serialized
\* form.  The pending name and the buffer are reset either way, and the rest
\* of the stream is processed and rendered: every result and every text
\* chunk of the stream has its entry.
C9_BestEffortParse ==
    /\ \A v \in Views :
        LET its == v.items
        IN  /\ Len(v.function_calls) =
                   Cardinality(ResultsIn(its)) + Cardinality(NamedResults(its))
            /\ \A p \in NamedResults(its) :
                  LET raw == Strip(ArgumentsIn(its,
                                 LastBefore(NamedResults(its), p) + 1, p - 1))
                      parsed == JsonLoads(raw)
                  IN  /\ v.function_calls[EntryOf(its, p)] =
                            CallingEntry(PendingName(its, p),
                                IF parsed.ok THEN JsonDumps(parsed.val) ELSE raw)
                      /\ v.function_calls[EntryOf(its, p) + 1] =
                            ResultEntry(its[p].result)
            /\ Len(its) \in NamedResults(its) =>
                  v.current_function_name = None /\ v.argument_buffer = <<>>
            /\ v.full_response = TextsIn(its)
    /\ \A t \in 1..Len(tasks) : tasks[t].pc = "done" /\ Len(tasks) = 1 =>
          /\ Contains(output_area[2], Join(<<>>, tasks[t].loc.full_response))
          /\ \A e \in 1..Len(tasks[t].loc.function_calls) :
                Contains(output_area[2], tasks[t].loc.function_calls[e])
    /\ (m_pc = "loop" /\ Len(turns) = 1) =>
          /\ Contains(display[1], Join(<<>>, m_loc.full_response))
          /\ \A e \in 1..Len(m_loc.function_calls) :
                Contains(display[1], m_loc.function_calls[e])

\* A call whose buffer ` 1}` is no JSON, finalized and shown with `1}`.
C9_Witness ==
    /\ cell = "batch" /\ m_pc = "loop" /\ Len(display) = 1
    /\ Flat(turns[1].stream) =
          << FunctionCallContent(<<"get_destinations">>, <<" ">>),
             FunctionCallContent(None, <<"1", "}">>),
             FunctionResultContent(<<"ok">>) >>
    /\ m_loc.function_calls =
          << CallingEntry(<<"get_destinations">>, <<"1", "}">>),
             ResultEntry(<<"ok">>) >>
    /\ m_loc.current_function_name = None /\ m_loc.argument_buffer = <<>>
    /\ Contains(display[1], <<"(", "1", "}", ")">>)

Done == { i \in 1..Len(tasks) : tasks[i].pc = "done" }

\* C4: the response is displayed all at once when the stream is complete:
\* a turn of the chat makes one append to output_area, at the end of its
\* stream, and shows nothing of the turn while chunks still arrive.
C4_DisplayedOnce ==
    /\ [](Len(output_area) = 1 + Cardinality(Done))
    /\ [][ /\ output_area' # output_area =>
                \E i \in 1..Len(tasks) :
                    /\ tasks[i].pc = "streaming" /\ tasks'[i].pc = "done"
                    /\ tasks'[i].stream = tasks[i].stream
                    /\ Len(output_area') = Len(output_area) + 1
                    /\ SubSeq(output_area', 1, Len(output_area)) = output_area
           /\ \A i \in Done : tasks'[i] = tasks[i] ]_vars

\* One turn is shown while another has taken a response and shows nothing.
C4_Witness ==
    /\ Len(tasks) = 2 /\ Len(output_area) = 2
    /\ tasks[2].pc = "done" /\ tasks[2].stream # <<>>
    /\ tasks[1].pc = "streaming" /\ tasks[1].stream # <<>>

\* C5: on_submit creates one task when the text has a non-whitespace
\* character; for an empty or whitespace-only text it creates none and
\* leaves input_box.value, the global thread and output_area as they are;
\* the tasks created are as many as the non-blank submissions.
C5_OneTaskPerSubmission ==
    /\ [](Len(tasks) = accepted)
    /\ [][ event' = "submit" =>
              IF NonBlank(input_box)
              THEN /\ Len(tasks') = Len(tasks) + 1
                   /\ SubSeq(tasks', 1, Len(tasks)) = tasks
              ELSE UNCHANGED <<tasks, input_box, thread, threads, output_area>>
         ]_vars

\* A whitespace-only text was submitted after an accepted one.
C5_Witness ==
    /\ event = "submit" /\ input_box = <<" ">>
    /\ Len(tasks) = 1 /\ accepted = 1

\* C6: for an accepted submission, on_submit clears input_box.value and
\* returns before the task it created has taken a step: no invoke_stream
\* call, no thread update, no display; the task holds the text as it was
\* before clearing.
C6_ClearedWithoutBlocking ==
    [][ (event' = "submit" /\ NonBlank(input_box)) =>
            /\ input_box' = <<>>
            /\ Len(tasks') = Len(tasks) + 1
            /\ tasks'[Len(tasks')].user_input = input_box
            /\ tasks'[Len(tasks')].pc = "created"
            /\ tasks'[Len(tasks')].stream = <<>>
            /\ tasks'[Len(tasks')].loc = NotStarted
            /\ UNCHANGED <<thread, threads, output_area>> ]_vars

\* A second text was accepted while the first task was streaming.
C6_Witness ==
    /\ event = "submit" /\ input_box = <<>> /\ Len(tasks) = 2
    /\ tasks[1].pc = "streaming"
    /\ tasks[2].pc = "created" /\ tasks[2].user_input = <<" ", "hi">>

\* The entry is one for task i: it opens with the task's user text and
\* holds the response text collected from the task's stream.
EntryFor(entry, i) ==
    LET head == UserDivOpen \o tasks[i].user_input \o UserDivClose
    IN  /\ Len(entry) >= Len(head) /\ SubSeq(entry, 1, Len(head)) = head
        /\ Contains(entry, AgentDivMid
                           \o Join(<<>>, TextsIn(Flat(tasks[i].stream)))
                           \o AgentDivClose)

\* Task i is done and shown once: output_area has as many entries for it as
\* there are finished tasks with its text and response.
ShownOnce(i) ==
    /\ i \in Done
    /\ Cardinality({ n \in 2..Len(output_area) : EntryFor(output_area[n], i) })
         = Cardinality({ j \in Done :
               /\ tasks[j].user_input = tasks[i].user_input
               /\ TextsIn(Flat(tasks[j].stream)) = TextsIn(Flat(tasks[i].stream)) })

\* Task i's stream raised instead of ending.
Raised(i) == i \in 1..Len(tasks) /\ tasks[i].pc = "raised"

\* C7: under fair scheduling of the tasks and streams that end, every
\* accepted submission is eventually followed by one entry of output_area
\* with its user text and the response collected for it, unless its stream
\* raises instead of ending.
C7_EventuallyShown ==
    \A i \in 1..MaxTasks : [](Len(tasks) >= i => <>(ShownOnce(i) \/ Raised(i)))

\* Two overlapping turns, both shown.
C7_Witness ==
    /\ overlap /\ Len(tasks) = 2 /\ Len(output_area) = 3
    /\ ShownOnce(1) /\ ShownOnce(2)
    /\ tasks[1].stream # <<>>

Atoms(str) == { str[j] : j \in 1..Len(str) }

\* The atoms of the markup and of the fixed labels.
MarkupAtoms ==
    Atoms(UserDivOpen \o UserDivClose \o CallsDivOpen \o CallsDivClose
          \o AgentDivOpen \o AgentDivMid \o AgentDivClose
          \o CallingEntry(<<>>, <<>>) \o ResultEntry(<<>>)
          \o <<"\n">> \o AgentName \o <<"Assistant">>)

\* The atoms of the function names, arguments, results and text chunks
\* among the items.
ItemAtoms(its) ==
    UNION { Atoms(its[j].text) \cup Atoms(its[j].result)
            \cup (IF its[j].function_name # None
                  THEN Atoms(its[j].function_name) ELSE {})
            \cup (IF its[j].arguments # None
                  THEN Atoms(its[j].arguments) ELSE {}) : j \in 1..Len(its) }

Fresh(loc) ==
    /\ loc.current_function_name = None /\ loc.argument_buffer = <<>>
    /\ loc.full_response = <<>> /\ loc.function_calls = <<>>

\* C8: every turn starts with current_function_name = None, argument_buffer
\* = "", full_response = [] and function_calls = [], and the HTML rendered
\* for a turn holds, beside the markup and the user's text, only what arrived
\* in the turn's own stream; in main's loop and for overlapping tasks.
C8_EphemeralBuffers ==
    /\ (m_pc = "stream" /\ turns[Len(turns)].stream = <<>>) => Fresh(m_loc)
    /\ \A i \in 1..Len(tasks) :
          (tasks[i].pc = "streaming" /\ tasks[i].stream = <<>>) => Fresh(tasks[i].loc)
    /\ \A v \in Views :
          /\ \A e \in 1..Len(v.function_calls) :
                Atoms(v.function_calls[e]) \subseteq MarkupAtoms \cup ItemAtoms(v.items)
          /\ \A e \in 1..Len(v.full_response) :
                Atoms(v.full_response[e]) \subseteq ItemAtoms(v.items)
          /\ Atoms(v.argument_buffer) \subseteq ItemAtoms(v.items)
    /\ \A k \in 1..Len(display) :
          Atoms(display[k]) \subseteq
              MarkupAtoms \cup Atoms(user_inputs[k])
              \cup ItemAtoms(Flat(turns[k].stream))
    /\ \A n \in 2..Len(output_area) : \E i \in Done :
          Atoms(output_area[n]) \subseteq
              MarkupAtoms \cup Atoms(tasks[i].user_input)
              \cup ItemAtoms(Flat(tasks[i].stream))

\* Main's first turn left a call pending; its second turn got a result and
\* shows it with no call.
C8_Witness ==
    /\ cell = "batch" /\ Len(display) = 2
    /\ turns[1].stream = << TextAndCall(1) >>
    /\ turns[2].stream = << ResultOnly(2) >>
    /\ m_loc.function_calls = << ResultEntry(<<"result", "2">>) >>
    /\ ~Contains(display[2], <<"Calling function: ">>)

\* process_user_input's locals after the responses of `stream`.
RECURSIVE ProcessStream(_, _)
ProcessStream(loc, stream) ==
    IF stream = <<>> THEN loc
    ELSE ProcessStream(ProcessItems(loc, Head(stream).items), Tail(stream))

\* The label main gives the agent's text for a turn with this stream.
MainLabel(stream) ==
    IF stream # <<>> /\ Truthy(stream[Len(stream)].name)
    THEN stream[Len(stream)].name
    ELSE <<"Assistant">>

\* C10: for the same user inputs, one after another, and the same streams,
\* process_user_input builds for each turn the function_calls list, the
\* response text and the HTML that main's iteration builds, where the agent
\* name labels are the same.
C10_SameAsBatch ==
    /\ \A k \in 1..Len(display) :
          MainLabel(turns[k].stream) = agent_name =>
             display[k] =
                ProcessRender(ProcessStream(ProcessStart(user_inputs[k]),
                                            turns[k].stream))
    /\ turns # <<>> =>
          LET loc == ProcessStream(ProcessStart(user_inputs[Len(turns)]),
                                   turns[Len(turns)].stream)
          IN  /\ m_loc.function_calls = loc.function_calls
              /\ m_loc.full_response = loc.full_response

\* Three turns of main: text chunks, a call with its result, a result alone.
C10_Witness ==
    /\ cell = "batch" /\ Len(display) = 3
    /\ turns[1].stream = << TextAndCall(1), TextAndCall(1) >>
    /\ turns[2].stream = << TextAndCall(2), ResultOnly(2) >>
    /\ turns[3].stream = << ResultOnly(3) >>
    /\ Contains(display[2], CallingEntry(<<"get_availability">>,
                               <<"{", "\"", "a", "\"", ":", " ", "2", "}">>))

\* The call chunks that carry a function name: each starts a call.
CallStarts(its) ==
    { q \in 1..Len(its) : IsCall(its[q]) /\ Truthy(its[q].function_name) }

\* The last position of the call started at c: the one before the next call
\* start or result.
CallEnd(its, c) ==
    LET stops == { q \in (c + 1)..Len(its) : q \in CallStarts(its) \/ IsResult(its[q]) }
    IN  IF stops = {} THEN Len(its)
        ELSE (CHOOSE q \in stops : \A r \in stops : q <= r) - 1

\* The place in function_calls of the entry for the result at p.
ResultEntryOf(its, p) ==
    Cardinality({ q \in ResultsIn(its) : q < p })
    + Cardinality({ q \in NamedResults(its) : q <= p }) + 1

\* More calls have started before p than results have arrived: the result
\* at p answers a call of the stream.
AnswersCall(its, p) ==
    Cardinality({ c \in CallStarts(its) : c < p })
        > Cardinality({ q \in ResultsIn(its) : q < p })

\* Every call chunk of the stream belongs to a call: one without a name
\* follows, with no result between, a chunk that starts a call.
Framed(its) ==
    \A q \in 1..Len(its) :
        (IsCall(its[q]) /\ ~Truthy(its[q].function_name)) =>
            \E c \in CallStarts(its) : c < q /\ q <= CallEnd(its, c)

\* C11: a pending call is finalized before its result is shown: for every
\* stream of calls and results, also one where the chunks of several calls
\* arrive before the first result, the entry of each result that answers a
\* call comes right after a "Calling function" entry that names a call of
\* the stream and carries the arguments of that call alone.
C11_FinalizedBeforeResult ==
    \A v \in Views : \A p \in ResultsIn(v.items) :
        (Framed(v.items) /\ AnswersCall(v.items, p)) =>
            LET e == ResultEntryOf(v.items, p)
            IN  /\ e > 1 /\ Len(v.function_calls) >= e
                /\ v.function_calls[e] = ResultEntry(v.items[p].result)
                /\ \E c \in { d \in CallStarts(v.items) : d < p } :
                      v.function_calls[e - 1] =
                          CallingEntry(v.items[c].function_name,
                              Reserialized(Strip(ArgumentsIn(v.items, c,
                                                     CallEnd(v.items, c)))))

\* The HTML shows a call of the function `name`: it has the "Function
\* Calls" section, with a "Calling function" entry for the name.
ShowsCall(html, name) ==
    /\ Contains(html, CallsDivOpen)
    /\ Contains(html, <<"Calling function: ">> \o name \o <<"(">>)

\* C12: every function call streamed in a turn is rendered: when the turn's
\* stream has a FunctionCallContent item with a function name, the HTML
\* displayed for the turn has the "Function Calls" section with a "Calling
\* function" entry for that name, whether or not a result follows the call
\* before the stream ends.
C12_EveryCallRendered ==
    /\ \A k \in 1..Len(display) :
          LET its == Flat(turns[k].stream)
          IN  \A c \in CallStarts(its) :
                 ShowsCall(display[k], its[c].function_name)
    /\ (Len(tasks) = 1 /\ tasks[1].pc = "done") =>
          LET its == Flat(tasks[1].stream)
          IN  \A c \in CallStarts(its) :
                 ShowsCall(output_area[2], its[c].function_name)

\* C13: chat history order: the welcome message is the first entry of
\* output_area, and the entries appended after it are in the order in which
\* their messages were submitted: for accepted submissions A before B that
\* are both shown, A's entry precedes B's, also when B was submitted while
\* A's stream was in progress and B's stream finished first.
C13_HistoryOrder ==
    /\ output_area[1] = IntroMessage
    /\ \A a \in Done : \A b \in Done :
          a < b =>
             \E n \in 2..Len(output_area) : \E m \in 2..Len(output_area) :
                /\ n < m
                /\ output_area[n] = ProcessRender(tasks[a].loc)
                /\ output_area[m] = ProcessRender(tasks[b].loc)

\* C14: buffer reset: right after any FunctionResultContent item has been
\* processed, current_function_name is None and argument_buffer is the
\* empty string, so the arguments of a call finalized later are only those
\* that arrived after the result before it.
C14_BufferReset ==
    \A v \in Views :
        /\ (v.items # <<>> /\ IsResult(v.items[Len(v.items)])) =>
              /\ v.current_function_name = None
              /\ v.argument_buffer = <<>>
        /\ \A p \in NamedResults(v.items) :
              LET first == LastBefore(ResultsIn(v.items), p) + 1
              IN  v.function_calls[EntryOf(v.items, p)] =
                      CallingEntry(PendingName(v.items, p),
                          Reserialized(Strip(ArgumentsIn(v.items, first, p - 1))))

\* The text of the StreamingTextContent items among the first n items,
\* concatenated in arrival order.
RECURSIVE ConcatText(_, _)
ConcatText(its, n) ==
    IF n = 0 THEN <<>>
    ELSE ConcatText(its, n - 1)
         \o (IF its[n].type = "StreamingTextContent" THEN its[n].text ELSE <<>>)

\* The agent text of a rendered turn: what stands between the label of the
\* agent's block and the end of the block.
AgentText(html) ==
    LET mids == { j \in 1..Len(html) : html[j] = AgentDivMid[1] }
        m == CHOOSE j \in mids : \A q \in mids : q <= j
    IN  SubSeq(html, m + 1, Len(html) - 1)

\* C15: the response text is the ordered concatenation of the text chunks:
\* for every stream the agent text rendered for the turn is the text of
\* the StreamingTextContent items with non-empty text, concatenated in
\* arrival order; function calls and results between them add, remove and
\* reorder nothing, and items of other types are ignored.
C15_TextConcatenated ==
    /\ \A v \in Views :
          Join(<<>>, v.full_response) = ConcatText(v.items, Len(v.items))
    /\ \A k \in 1..Len(display) :
          AgentText(display[k]) =
              ConcatText(Flat(turns[k].stream), Len(Flat(turns[k].stream)))
    /\ (Len(tasks) = 1 /\ tasks[1].pc = "done") =>
          AgentText(output_area[2]) =
              ConcatText(Flat(tasks[1].stream), Len(Flat(tasks[1].stream)))

\* Two text chunks with an item of another type between them, shown as
\* "Hi!".
C15_Witness ==
    /\ Len(tasks) = 1 /\ tasks[1].pc = "done"
    /\ Flat(tasks[1].stream) =
          << StreamingTextContent(<<"Hi">>), OtherContent,
             StreamingTextContent(<<"!">>) >>
    /\ AgentText(output_area[2]) = <<"Hi", "!">>

\* The number of times `message` occurs in the threads' histories.
Occurrences(message) ==
    Cardinality(UNION { { <<t, j>> : j \in { q \in 1..Len(threads[t]) :
                                               threads[t][q] = message } } :
                        t \in DOMAIN threads })

\* C16: no retry and no handling of a stream failure: each turn calls
\* agent.invoke_stream once; when the stream raises after zero or more
\* responses the task neither calls it again nor goes on, nothing is
\* appended to output_area for the turn, and the global thread keeps the
\* value the last response before the failure gave it (the value it had, if
\* there was none).
C16_NoRetry ==
    /\ [](\A i \in 1..Len(tasks) :
            /\ Occurrences(UserMessage(i)) =
                  IF tasks[i].pc = "created" THEN 0 ELSE 1
            /\ (Raised(i) /\ Len(tasks) = 1) =>
                  /\ output_area = << IntroMessage >>
                  /\ thread = IF tasks[i].stream = <<>>
                              THEN NoThread ELSE tasks[i].th)
    /\ [][ \A i \in 1..Len(tasks) :
              /\ (tasks[i].pc = "streaming" /\ tasks'[i].pc = "raised") =>
                    /\ UNCHANGED <<thread, threads, output_area>>
                    /\ tasks'[i].stream = tasks[i].stream
              /\ tasks[i].pc = "raised" => tasks'[i] = tasks[i] ]_vars

\* A stream raised after a response while another task was streaming:
\* nothing of the turn is shown and the global thread is the response's.
C16_Witness ==
    /\ Len(tasks) = 2 /\ tasks[1].pc = "raised" /\ tasks[1].stream # <<>>
    /\ tasks[2].pc = "streaming" /\ tasks[2].stream = <<>>
    /\ thread = tasks[1].th /\ output_area = << IntroMessage >>

====
